---- MODULE Spec2Model ----
(***************************************************************************)
(* Model of src/pages/api/cron/query-stats.ts: the cron endpoint that      *)
(* anonymizes stored query logs through a chat-completion endpoint.        *)
(*                                                                         *)
(* The store (table query_stats), the completion endpoint and the metering *)
(* sink are external: every request to them is one step whose outcome is   *)
(* chosen nondeterministically among the outcomes the client can observe.  *)
(* Each await of the source is a point where another request handler may   *)
(* run.                                                                    *)
(***************************************************************************)
EXTENDS Integers, Sequences, FiniteSets, TLC

(***************************************************************************)
(* Bounds and program constants.                                           *)
(***************************************************************************)
\* Longest array the completion endpoint is made to return besides the
\* faithful echo of the batch.
MaxReply == 2

\* @/lib/constants, imported at line 5; scaled down so that record costs
\* below, at and above half of it fit in a small model.
CONTEXT_TOKENS_CUTOFF_GPT_3_5_TURBO == 8

\* .limit(10) of the query_stats read.
PAGE_LIMIT == 10

\* .limit(20) of the backlog view read, scaled down so that the view can
\* hold more entries than the limit.
TENANT_LIMIT == 2

Handlers == {1, 2}
Tenants == {"t1", "t2"}
Ids == {"a", "b"}
NoProject == ""

\* Rows of query_stats that may exist. Ids are unique per tenant only, so
\* the id "a" exists under both tenants.
Keys == {<<"t1", "a">>, <<"t1", "b">>, <<"t2", "a">>}

allowedMethods == {"GET"}
\* The methods a trigger arrives with; "" is a request without a method.
Methods == {"GET", "POST", ""}

(***************************************************************************)
(* Texts. A text is known by who wrote it (0: the user, h: the reply given *)
(* to handler h, -1: null) and by its length.                              *)
(***************************************************************************)
NullText == [who |-> -1, len |-> 0, of |-> ""]
RawText(n) == [who |-> 0, len |-> n, of |-> ""]
ScrubbedText(h) == [who |-> h, len |-> 1, of |-> ""]

\* A text is also known by the id of the record or of the reply entry it
\* was written for.
about(text, id) == IF text = NullText THEN text ELSE [text EXCEPT !.of = id]

\* The (prompt, response) pairs a logged interaction starts with: costs
\* 1, 2, 4 (= budget) and 5 (> budget).
RawShapes ==
    { <<RawText(1), NullText>>, <<RawText(1), RawText(1)>>,
      <<RawText(2), RawText(2)>>, <<RawText(3), RawText(2)>> }

AbsentRow == [present |-> FALSE, processed |-> FALSE,
              prompt |-> NullText, response |-> NullText]

\* QueryStatData: what select('id,prompt,response') yields for a row.
QueryStatData(id, row) == [id |-> id, prompt |-> row.prompt, response |-> row.response]

\* approximatedTokenCount(JSON.stringify(query)): grows with the length of
\* the serialized texts.
approximatedTokenCount(query) == query.prompt.len + query.response.len

estimateQueryTokenCount(query) == approximatedTokenCount(query)

maxTokens == CONTEXT_TOKENS_CUTOFF_GPT_3_5_TURBO \div 2

\* Sum of the estimated costs of a sequence of queries.
RECURSIVE TotalCost(_)
TotalCost(qs) ==
    IF qs = <<>> THEN 0
    ELSE estimateQueryTokenCount(Head(qs)) + TotalCost(Tail(qs))

\* Variant of trimLoop that stops only when the budget is exceeded (> for >=).
RECURSIVE trimLoopExceeds(_, _, _, _)
trimLoopExceeds(queries, max, tokenCount, trimmedQueries) ==
    IF queries = <<>> THEN trimmedQueries
    ELSE LET count == tokenCount + estimateQueryTokenCount(Head(queries))
         IN IF count > max THEN trimmedQueries
            ELSE trimLoopExceeds(Tail(queries), max, count,
                                 Append(trimmedQueries, Head(queries)))

\* Variant of trimLoop that passes over a record that does not fit and goes
\* on with the next (continue for break).
RECURSIVE trimLoopSkips(_, _, _, _)
trimLoopSkips(queries, max, tokenCount, trimmedQueries) ==
    IF queries = <<>> THEN trimmedQueries
    ELSE LET count == tokenCount + estimateQueryTokenCount(Head(queries))
         IN IF count >= max
            THEN trimLoopSkips(Tail(queries), max, tokenCount, trimmedQueries)
            ELSE trimLoopSkips(Tail(queries), max, count,
                               Append(trimmedQueries, Head(queries)))

\* The loop of trimQueries, from the running tokenCount and the batch so far.
RECURSIVE trimLoop(_, _, _, _)
trimLoop(queries, max, tokenCount, trimmedQueries) ==
    IF queries = <<>> THEN trimmedQueries
    ELSE LET count == tokenCount + estimateQueryTokenCount(Head(queries))
         IN IF count >= max THEN trimmedQueries
            ELSE trimLoop(Tail(queries), max, count, Append(trimmedQueries, Head(queries)))

trimQueries(queries, max) == trimLoop(queries, max, 0, <<>>)

\* Variant of overflowingQueryIds that compares with the whole cutoff.
overflowingWholeCutoff(queries) ==
    { queries[i].id : i \in { j \in DOMAIN queries :
        estimateQueryTokenCount(queries[j]) > CONTEXT_TOKENS_CUTOFF_GPT_3_5_TURBO } }

\* queries.map(q => estimate(q) > maxTokens ? q.id : null).filter(isPresent)
overflowingQueryIds(queries) ==
    { queries[i].id : i \in { j \in DOMAIN queries :
                                estimateQueryTokenCount(queries[j]) > maxTokens } }

(***************************************************************************)
(* The store.                                                              *)
(***************************************************************************)
\* .match({ project_id: projectId, processed: false })
unprocessedKeys(rows, projectId) ==
    { k \in Keys : k[1] = projectId /\ rows[k].present /\ ~rows[k].processed }

\* The rows a read may return: any min(n, limit) of the n matching rows.
pages(S, limit) ==
    { P \in SUBSET S :
        Cardinality(P) = IF Cardinality(S) < limit THEN Cardinality(S) ELSE limit }

\* The orders in which the store may return the set S (no ORDER BY is given).
orders(S) ==
    { s \in [1 .. Cardinality(S) -> S] : \A i, j \in DOMAIN s : s[i] = s[j] => i = j }

\* .delete().in('id', ids): every row whose id is in the list, whatever its
\* project.
deleteIn(rows, ids) ==
    [k \in Keys |-> IF rows[k].present /\ k[2] \in ids THEN AbsentRow ELSE rows[k]]

\* Variant of updateEq that marks the row and leaves its texts.
updateEqFlagOnly(rows, entry) ==
    [k \in Keys |->
        IF rows[k].present /\ k[2] = entry.id
        THEN [rows[k] EXCEPT !.processed = TRUE]
        ELSE rows[k]]

\* Variant of updateEq that writes the flag and the prompt, and leaves the
\* response.
updateEqPromptOnly(rows, entry) ==
    [k \in Keys |->
        IF rows[k].present /\ k[2] = entry.id
        THEN [rows[k] EXCEPT !.processed = TRUE, !.prompt = entry.prompt]
        ELSE rows[k]]

\* Variant of updateEq that flips the flag instead of setting it.
updateEqFlips(rows, entry) ==
    [k \in Keys |->
        IF rows[k].present /\ k[2] = entry.id
        THEN [present |-> TRUE, processed |-> ~rows[k].processed,
              prompt |-> entry.prompt, response |-> entry.response]
        ELSE rows[k]]

\* .update({processed: true, prompt, response}).eq('id', entry.id): every
\* row with that id, whatever its project; a row that is absent stays absent.
updateEq(rows, entry) ==
    [k \in Keys |->
        IF rows[k].present /\ k[2] = entry.id
        THEN [present |-> TRUE, processed |-> TRUE,
              prompt |-> entry.prompt, response |-> entry.response]
        ELSE rows[k]]

\* The rows an update by entry.id matches.
matchedKeys(rows, entry) == { k \in Keys : rows[k].present /\ k[2] = entry.id }

\* The tenants listed by v_distinct_unprocessed_query_stats_project_ids.
backlogProjects(rows) == { t \in Tenants : unprocessedKeys(rows, t) # {} }

(***************************************************************************)
(* The completion endpoint's replies.                                      *)
(***************************************************************************)
NullEntry == [shape |-> "null", id |-> "", prompt |-> NullText, response |-> NullText]
Entry(h, id) ==
    [shape |-> "record", id |-> id,
     prompt |-> about(ScrubbedText(h), id), response |-> about(ScrubbedText(h), id)]

\* The reply that echoes the batch, id by id, with scrubbed texts.
Echo(h, batch) == [i \in DOMAIN batch |-> Entry(h, batch[i].id)]

\* Arrays of up to MaxReply entries: the ids are whatever the model wrote,
\* and an entry may be null.
ShortArrays(h) ==
    UNION { [1 .. n -> {NullEntry} \cup { Entry(h, id) : id \in Ids }] : n \in 0 .. MaxReply }

NoReply == [kind |-> "none", entries |-> <<>>]

\* What getCompletionsResponseText may hold: text that is no JSON, JSON that
\* is no array (null), or an array.
Replies(h, batch) ==
    { [kind |-> "unparsable", entries |-> <<>>], [kind |-> "nonarray", entries |-> <<>>] }
    \cup { [kind |-> "array", entries |-> e] : e \in ShortArrays(h) \cup {Echo(h, batch)} }

(***************************************************************************)
(* State.                                                                  *)
(*   rows  the table query_stats, by (project_id, id)                      *)
(*   run   for each request handler, its position and its locals; calls,   *)
(*         writes, touched and deleteOutcome record what the current job   *)
(*         has asked of its collaborators and what came of it; viewData,   *)
(*         started and counts record what the backlog view answered, the   *)
(*         projects whose job was entered and the counts returned so far   *)
(***************************************************************************)
VARIABLES rows, run

vars == <<rows, run>>

NoRes == [status |-> 0, processed |-> 0, allow |-> {}]
NoCalls == [reads |-> 0, deletes |-> 0, completions |-> 0, meters |-> 0, updates |-> 0]

\* A handler that is not serving a request.
IdleRun ==
    [pc |-> "idle", method |-> "", projectId |-> NoProject, data |-> <<>>,
     totalProcessed |-> 0, project |-> NoProject, queries |-> <<>>,
     trimmedQueries |-> <<>>, reply |-> NoReply, idx |-> 0, result |-> 0,
     calls |-> NoCalls, writes |-> <<>>, touched |-> {}, deleteOutcome |-> "none",
     viewData |-> <<>>, started |-> <<>>, counts |-> <<>>,
     res |-> NoRes]

\* A logged interaction of this id and shape, not yet processed.
rawRow(id, s) ==
    [present |-> TRUE, processed |-> FALSE,
     prompt |-> about(s[1], id), response |-> about(s[2], id)]

Init ==
    /\ \E shape \in [Keys -> RawShapes] : rows = [k \in Keys |-> rawRow(k[2], shape[k])]
    /\ run = [h \in Handlers |-> IdleRun]

(***************************************************************************)
(* The handler.                                                            *)
(***************************************************************************)
\* res.status(s).send(...): the request is answered, and the locals of the
\* handler are gone.
respond(r, status, processed, allow) ==
    [IdleRun EXCEPT !.pc = "responded", !.method = r.method, !.projectId = r.projectId,
                    !.res = [status |-> status, processed |-> processed, allow |-> allow]]

\* Entry of processProjectQueryStats(projectId): the read is issued.
startJob(r, projectId) ==
    [r EXCEPT !.pc = "read", !.project = projectId, !.started = Append(@, projectId),
              !.queries = <<>>,
              !.trimmedQueries = <<>>, !.reply = NoReply, !.idx = 0, !.result = 0,
              !.calls = NoCalls, !.writes = <<>>, !.touched = {}, !.deleteOutcome = "none"]

\* return n of processProjectQueryStats.
return(r, n) == [r EXCEPT !.pc = "returned", !.result = n]

\* An exception leaves processProjectQueryStats and the handler, which has
\* no try/catch: the framework answers 500.
throw(r) == respond(r, 500, 0, {})

\* for (const { project_id } of data): entries without a project_id are
\* skipped, the next one is processed, and the total is sent after the last.
RECURSIVE forLoop(_, _)
forLoop(r, data) ==
    IF data = <<>> THEN respond([r EXCEPT !.data = <<>>], 200, r.totalProcessed, {})
    ELSE IF Head(data) # NoProject
         THEN startJob([r EXCEPT !.data = Tail(data)], Head(data))
         ELSE forLoop(r, Tail(data))

\* Variant of Request whose guard only rejects a missing method.
RequestAnyMethod(h) ==
    /\ run[h].pc \in {"idle", "responded"}
    /\ \E method \in Methods, projectId \in Tenants \cup {NoProject} :
         LET r == [IdleRun EXCEPT !.method = method, !.projectId = projectId]
         IN run' = [run EXCEPT ![h] =
                IF method = ""
                THEN respond(r, 405, 0, allowedMethods)
                ELSE IF projectId # NoProject
                     THEN startJob(r, projectId)
                     ELSE [r EXCEPT !.pc = "view"]]
    /\ UNCHANGED rows

\* A trigger arrives: the method guard, then the choice of mode.
Request(h) ==
    /\ run[h].pc \in {"idle", "responded"}
    /\ \E method \in Methods, projectId \in Tenants \cup {NoProject} :
         LET r == [IdleRun EXCEPT !.method = method, !.projectId = projectId]
         IN run' = [run EXCEPT ![h] =
                IF method = "" \/ method \notin allowedMethods
                THEN respond(r, 405, 0, allowedMethods)
                ELSE IF projectId # NoProject
                     THEN startJob(r, projectId)
                     ELSE [r EXCEPT !.pc = "view"]]
    /\ UNCHANGED rows

\* The read of the backlog view fails: data is null.
ViewFails(h) ==
    /\ run[h].pc = "view"
    /\ run' = [run EXCEPT ![h] = respond(run[h], 200, 0, {})]
    /\ UNCHANGED rows

\* The backlog view answers with up to TENANT_LIMIT entries, in its order;
\* an entry may carry no project id.
ViewReturns(h) ==
    /\ run[h].pc = "view"
    /\ \E extra \in SUBSET {NoProject} :
         \E P \in pages(backlogProjects(rows) \cup extra, TENANT_LIMIT) :
            \E data \in orders(P) :
               run' = [run EXCEPT ![h] = forLoop([run[h] EXCEPT !.viewData = data], data)]
    /\ UNCHANGED rows

\* Variant of Continue that keeps the last count instead of adding it.
ContinueOverwrites(h) ==
    /\ run[h].pc = "returned"
    /\ run' = [run EXCEPT ![h] =
          IF run[h].projectId # NoProject
          THEN respond(run[h], 200, run[h].result, {})
          ELSE forLoop([run[h] EXCEPT !.totalProcessed = run[h].result,
                                      !.counts = Append(@, run[h].result)],
                       run[h].data)]
    /\ UNCHANGED rows

\* The job of one tenant has returned its count.
Continue(h) ==
    /\ run[h].pc = "returned"
    /\ run' = [run EXCEPT ![h] =
          IF run[h].projectId # NoProject
          THEN respond(run[h], 200, run[h].result, {})
          ELSE forLoop([run[h] EXCEPT !.totalProcessed = @ + run[h].result,
                                      !.counts = Append(@, run[h].result)],
                       run[h].data)]
    /\ UNCHANGED rows

(***************************************************************************)
(* processProjectQueryStats.                                               *)
(***************************************************************************)
count(r, what) == [r EXCEPT !.calls[what] = @ + 1]

\* The read fails: queries is null, and the job returns 0.
ReadFails(h) ==
    /\ run[h].pc = "read"
    /\ run' = [run EXCEPT ![h] = return(count(run[h], "reads"), 0)]
    /\ UNCHANGED rows

\* Variant of ReadReturns without the early return on an empty answer.
ReadReturnsNoGuard(h) ==
    /\ run[h].pc = "read"
    /\ \E P \in pages(unprocessedKeys(rows, run[h].project), PAGE_LIMIT) :
         \E o \in orders(P) :
            LET queries == [i \in DOMAIN o |-> QueryStatData(o[i][2], rows[o[i]])]
            IN run' = [run EXCEPT ![h] =
                    [count(run[h], "reads") EXCEPT !.pc = "evict", !.queries = queries]]
    /\ UNCHANGED rows

\* The read answers with up to PAGE_LIMIT unprocessed rows of the project;
\* an empty answer returns 0.
ReadReturns(h) ==
    /\ run[h].pc = "read"
    /\ \E P \in pages(unprocessedKeys(rows, run[h].project), PAGE_LIMIT) :
         \E o \in orders(P) :
            LET queries == [i \in DOMAIN o |-> QueryStatData(o[i][2], rows[o[i]])]
                r == count(run[h], "reads")
            IN run' = [run EXCEPT ![h] =
                    IF Len(queries) = 0 THEN return(r, 0)
                    ELSE [r EXCEPT !.pc = "evict", !.queries = queries]]
    /\ UNCHANGED rows

\* What follows the eviction: the batch is trimmed and the completion
\* request is built around it.
afterEviction(r) ==
    [r EXCEPT !.pc = "complete",
              !.trimmedQueries = trimQueries(r.queries, maxTokens)]

\* No fetched query overflows: no delete is issued.
EvictNone(h) ==
    /\ run[h].pc = "evict"
    /\ overflowingQueryIds(run[h].queries) = {}
    /\ run' = [run EXCEPT ![h] = afterEviction(run[h])]
    /\ UNCHANGED rows

\* The overflowing queries are deleted by id.
EvictDeletes(h) ==
    /\ run[h].pc = "evict"
    /\ overflowingQueryIds(run[h].queries) # {}
    /\ rows' = deleteIn(rows, overflowingQueryIds(run[h].queries))
    /\ run' = [run EXCEPT ![h] =
          afterEviction([count(run[h], "deletes") EXCEPT !.deleteOutcome = "ok"])]

\* The delete fails; its result is not looked at.
EvictFails(h) ==
    /\ run[h].pc = "evict"
    /\ overflowingQueryIds(run[h].queries) # {}
    /\ run' = [run EXCEPT ![h] =
          afterEviction([count(run[h], "deletes") EXCEPT !.deleteOutcome = "error"])]
    /\ UNCHANGED rows

\* The completion request fails in transport (fetch rejects, or the body
\* is no JSON and res.json() rejects): nothing catches it.
CompleteThrows(h) ==
    /\ run[h].pc = "complete"
    /\ run' = [run EXCEPT ![h] = throw(count(run[h], "completions"))]
    /\ UNCHANGED rows

\* Variant of CompleteError that does not look at json.error.
CompleteErrorIgnored(h) ==
    /\ run[h].pc = "complete"
    /\ run' = [run EXCEPT ![h] =
          [count(run[h], "completions") EXCEPT
              !.pc = "meter", !.reply = [kind |-> "error", entries |-> <<>>]]]
    /\ UNCHANGED rows

\* The endpoint reports an error (json.error): return 0.
CompleteError(h) ==
    /\ run[h].pc = "complete"
    /\ run' = [run EXCEPT ![h] =
          return([count(run[h], "completions") EXCEPT !.reply = [kind |-> "error", entries |-> <<>>]], 0)]
    /\ UNCHANGED rows

\* Variant of CompleteReturns that goes on to the parse without recording
\* the token usage.
CompleteReturnsUnmetered(h) ==
    /\ run[h].pc = "complete"
    /\ \E reply \in Replies(h, run[h].trimmedQueries) :
         run' = [run EXCEPT ![h] =
            [count(run[h], "completions") EXCEPT !.pc = "parse", !.reply = reply]]
    /\ UNCHANGED rows

\* The endpoint answers with a completion.
CompleteReturns(h) ==
    /\ run[h].pc = "complete"
    /\ \E reply \in Replies(h, run[h].trimmedQueries) :
         run' = [run EXCEPT ![h] =
            [count(run[h], "completions") EXCEPT !.pc = "meter", !.reply = reply]]
    /\ UNCHANGED rows

\* recordProjectTokenCount(projectId, ..., tokenCount, 'query-stats').
Meter(h) ==
    /\ run[h].pc = "meter"
    /\ run' = [run EXCEPT ![h] = [count(run[h], "meters") EXCEPT !.pc = "parse"]]
    /\ UNCHANGED rows

\* The for loop over the parsed entries, arriving at entry i: past the
\* last entry the length is returned; reading .id of a null entry throws
\* inside the try, and the catch falls through to return 0; otherwise the
\* update of entry i is issued.
forEntries(r, i) ==
    IF i > Len(r.reply.entries) THEN return(r, Len(r.reply.entries))
    ELSE IF r.reply.entries[i].shape = "null" THEN return(r, 0)
    ELSE [r EXCEPT !.pc = "update", !.idx = i]

\* JSON.parse(text) and the entry into the loop. Text that does not parse,
\* and a parsed value that has no length or cannot be iterated, throw inside
\* the try.
Parse(h) ==
    /\ run[h].pc = "parse"
    /\ run' = [run EXCEPT ![h] =
          IF run[h].reply.kind = "array" THEN forEntries(run[h], 1)
          ELSE return(run[h], 0)]
    /\ UNCHANGED rows

\* The update of entry idx is applied by the store.
UpdateApplied(h) ==
    /\ run[h].pc = "update"
    /\ LET entry == run[h].reply.entries[run[h].idx]
           r == [count(run[h], "updates") EXCEPT
                    !.writes = Append(@, "ok"),
                    !.touched = @ \cup matchedKeys(rows, entry)]
       IN /\ rows' = updateEq(rows, entry)
          /\ run' = [run EXCEPT ![h] = forEntries(r, run[h].idx + 1)]

\* Variant of UpdateFails that throws the error, which the catch turns
\* into return 0.
UpdateFailsAborts(h) ==
    /\ run[h].pc = "update"
    /\ run' = [run EXCEPT ![h] =
          return([count(run[h], "updates") EXCEPT !.writes = Append(@, "error")], 0)]
    /\ UNCHANGED rows

\* The update of entry idx fails: the error is logged and the loop goes on.
UpdateFails(h) ==
    /\ run[h].pc = "update"
    /\ run' = [run EXCEPT ![h] =
          forEntries([count(run[h], "updates") EXCEPT !.writes = Append(@, "error")],
                     run[h].idx + 1)]
    /\ UNCHANGED rows

Step(h) ==
    \/ Request(h)
    \/ ViewFails(h)
    \/ ViewReturns(h)
    \/ Continue(h)
    \/ ReadFails(h)
    \/ ReadReturns(h)
    \/ EvictNone(h)
    \/ EvictDeletes(h)
    \/ EvictFails(h)
    \/ CompleteThrows(h)
    \/ CompleteError(h)
    \/ CompleteReturns(h)
    \/ Meter(h)
    \/ Parse(h)
    \/ UpdateApplied(h)
    \/ UpdateFails(h)

\* Triggers served one after the other, as the scheduler sends them.
Next == Step(1)

Spec == Init /\ [][Next]_vars

\* Two triggers that overlap, each for one project: the handlers interleave
\* at every await. The collaborators answer; what their failures do is in Spec.
Trigger(h) == run[h].pc = "idle" /\ Request(h) /\ run'[h].pc = "read"

OverlapStep(h) ==
    \/ Trigger(h)
    \/ Continue(h)
    \/ ReadReturns(h)
    \/ EvictNone(h)
    \/ EvictDeletes(h)
    \/ CompleteReturns(h)
    \/ Meter(h)
    \/ Parse(h)
    \/ UpdateApplied(h)

OverlapNext == \E h \in Handlers : OverlapStep(h)

\* The overlapping triggers start from records that are small or oversized.
OverlapShapes == { s \in RawShapes : s[1].len + s[2].len \in {1, maxTokens + 1} }

OverlapInit ==
    /\ \E shape \in [Keys -> OverlapShapes] :
          rows = [k \in Keys |-> rawRow(k[2], shape[k])]
    /\ run = [h \in Handlers |-> IdleRun]

SpecOverlap == OverlapInit /\ [][OverlapNext]_vars

\* The scheduler keeps sending triggers for every project, one after the
\* other; the store answers every request, always in the same order of ids,
\* and the completion endpoint echoes the ids of the batch.
idOrder == <<"a", "b">>
idRank(id) == CHOOSE i \in DOMAIN idOrder : idOrder[i] = id
stableOrder(queries) ==
    \A i, j \in DOMAIN queries : i < j => idRank(queries[i].id) < idRank(queries[j].id)

Scheduled(t) == Request(1) /\ run'[1].pc = "read" /\ run'[1].project = t
StableRead == ReadReturns(1) /\ stableOrder(run'[1].queries)
EchoReply ==
    /\ CompleteReturns(1)
    /\ run'[1].reply = [kind |-> "array", entries |-> Echo(1, run[1].trimmedQueries)]

JobStep ==
    \/ StableRead
    \/ EvictNone(1)
    \/ EvictDeletes(1)
    \/ EchoReply
    \/ Meter(1)
    \/ Parse(1)
    \/ UpdateApplied(1)
    \/ Continue(1)

ProgressNext ==
    \/ \E t \in Tenants : Scheduled(t)
    \/ JobStep

\* Every step of a job completes, and every project is triggered again and
\* again.
SpecProgress ==
    /\ Init
    /\ [][ProgressNext]_vars
    /\ WF_vars(JobStep)
    /\ \A t \in Tenants : SF_vars(Scheduled(t))

(***************************************************************************)
(* Properties.                                                             *)
(***************************************************************************)
\* The job of handler h is past the eviction step.
pastEviction(h) == run[h].pc \in {"complete", "meter", "parse", "update", "returned"}

\* The completion request of the job of handler h has been sent.
submitted(h) == run[h].calls.completions > 0

\* The ids of a sequence of queries or entries.
idsOf(qs) == { qs[i].id : i \in DOMAIN qs }

\* The row of the current project of handler h that carries this id.
ownKey(h, id) == <<run[h].project, id>>

\* C1: every prefix of the batch built by trimQueries, hence the batch that
\* is submitted, has a total estimated cost strictly below maxTokens.
C1_BatchBelowBudget ==
    \A h \in Handlers :
        \A n \in 0 .. Len(run[h].trimmedQueries) :
            TotalCost(SubSeq(run[h].trimmedQueries, 1, n)) < maxTokens

\* C1 witness: a batch of two records was submitted although three units
\* of budget were used, and a batch was cut short by the budget.
C1_Witness ==
    \E h \in Handlers :
        /\ submitted(h)
        /\ Len(run[h].trimmedQueries) = 2
        /\ TotalCost(run[h].trimmedQueries) = maxTokens - 1

\* C2 (a): a fetched record whose own cost exceeds maxTokens is not in the
\* batch.
C2_NotInBatch ==
    \A h \in Handlers :
        \A i \in DOMAIN run[h].queries :
            estimateQueryTokenCount(run[h].queries[i]) > maxTokens
                => run[h].queries[i].id \notin idsOf(run[h].trimmedQueries)

\* C2 as stated: past the eviction step every fetched record whose own cost
\* exceeds maxTokens is out of the batch and absent from the store.
C2_Original ==
    /\ C2_NotInBatch
    /\ \A h \in Handlers :
        \A i \in DOMAIN run[h].queries :
            (pastEviction(h) /\ estimateQueryTokenCount(run[h].queries[i]) > maxTokens)
                => ~rows[ownKey(h, run[h].queries[i].id)].present

\* C2 amended: a fetched record whose own cost exceeds maxTokens is never in
\* the batch; past the eviction step it is absent from the store unless the
\* delete request failed; and no row that is absent ever comes back.
C2_Evicted ==
    /\ [](C2_NotInBatch
          /\ \A h \in Handlers :
               \A i \in DOMAIN run[h].queries :
                  (/\ pastEviction(h)
                   /\ run[h].deleteOutcome # "error"
                   /\ estimateQueryTokenCount(run[h].queries[i]) > maxTokens)
                      => ~rows[ownKey(h, run[h].queries[i].id)].present)
    /\ [][\A k \in Keys : ~rows[k].present => ~rows'[k].present]_vars

\* C2 witness: an oversized record was fetched next to another one, the
\* delete succeeded and the job went on.
C2_Witness ==
    \E h \in Handlers :
        /\ pastEviction(h)
        /\ run[h].deleteOutcome = "ok"
        /\ Len(run[h].queries) = 2
        /\ \E i \in DOMAIN run[h].queries :
              /\ estimateQueryTokenCount(run[h].queries[i]) > maxTokens
              /\ ~rows[ownKey(h, run[h].queries[i].id)].present

\* C3 as stated: a job whose batch is empty makes no completion request and
\* returns 0.
C3_EmptyBatchNoCall ==
    \A h \in Handlers :
        (pastEviction(h) /\ run[h].trimmedQueries = <<>>)
            => /\ run[h].calls.completions = 0
               /\ run[h].pc = "returned" => run[h].result = 0

\* C4 as stated: a GET trigger is always answered 200, whatever the store
\* and the completion endpoint do.
C4_GetAlways200 ==
    \A h \in Handlers :
        (run[h].pc = "responded" /\ run[h].method = "GET") => run[h].res.status = 200

\* The reply is an array whose entries all have the shape of a record.
wellShaped(reply) ==
    /\ reply.kind = "array"
    /\ \A i \in DOMAIN reply.entries : reply.entries[i].shape = "record"

\* C5 as stated: when the completion is no array of record-shaped entries,
\* the job returns 0 and its write-back has changed no row.
C5_MalformedNoWrite ==
    \A h \in Handlers :
        (/\ run[h].pc = "returned"
         /\ run[h].reply.kind \in {"unparsable", "nonarray", "array"}
         /\ ~wellShaped(run[h].reply))
            => /\ run[h].result = 0
               /\ run[h].calls.updates = 0
               /\ run[h].touched = {}
\* C6: when the completion endpoint reports an error the job returns 0,
\* has issued no update and no metering write, has made exactly one
\* completion request, and every record of the batch is still in the store
\* with processed = false, so that the next read selects it again.
C6_ApiErrorNoEffect ==
    \A h \in Handlers :
        (run[h].pc = "returned" /\ run[h].reply.kind = "error")
            => /\ run[h].result = 0
               /\ run[h].calls.updates = 0
               /\ run[h].calls.meters = 0
               /\ run[h].calls.completions = 1
               /\ run[h].touched = {}
               /\ \A id \in idsOf(run[h].trimmedQueries) :
                     ownKey(h, id) \in unprocessedKeys(rows, run[h].project)

\* C6 witness: the endpoint reported an error for a batch of two records.
C6_Witness ==
    \E h \in Handlers :
        /\ run[h].pc = "returned"
        /\ run[h].reply.kind = "error"
        /\ Len(run[h].trimmedQueries) = 2

\* C7: after a parse that gave an array of record-shaped entries, every
\* entry's update is attempted whatever became of the ones before it and
\* the count returned is the number of entries; an update that fails
\* changes no row.
C7_IndependentWriteBack ==
    /\ [](\A h \in Handlers :
            (run[h].pc = "returned" /\ wellShaped(run[h].reply))
                => /\ run[h].result = Len(run[h].reply.entries)
                   /\ Len(run[h].writes) = Len(run[h].reply.entries))
    /\ [][\A h \in Handlers :
            (run[h].pc = "update" /\ run'[h].writes = Append(run[h].writes, "error"))
                => rows' = rows]_vars

\* C7 witness: the first update failed, the second was applied to a record
\* of the batch, the first record is still unprocessed and 2 is returned.
C7_Witness ==
    \E h \in Handlers :
        /\ run[h].pc = "returned"
        /\ run[h].writes = <<"error", "ok">>
        /\ run[h].result = 2
        /\ run[h].reply.entries = Echo(h, run[h].trimmedQueries)
        /\ ~rows[ownKey(h, run[h].reply.entries[1].id)].processed
        /\ rows[ownKey(h, run[h].reply.entries[2].id)].processed

\* The reply of handler h echoes exactly the ids of its batch and every
\* update was applied.
roundTrip(h) ==
    /\ run[h].pc = "returned"
    /\ run[h].reply.kind = "array"
    /\ run[h].reply.entries = Echo(h, run[h].trimmedQueries)
    /\ run[h].trimmedQueries # <<>>
    /\ \A i \in DOMAIN run[h].writes : run[h].writes[i] = "ok"

\* C8: when the reply echoes exactly the ids of the batch and every update
\* is applied, every record of the batch ends processed with the prompt and
\* response of its entry, the job returns the batch size, and a handler
\* called for that project reports it.
C8_RoundTrip ==
    /\ [](\A h \in Handlers :
            roundTrip(h)
                => /\ run[h].result = Len(run[h].trimmedQueries)
                   /\ \A i \in DOMAIN run[h].trimmedQueries :
                        LET row == rows[ownKey(h, run[h].trimmedQueries[i].id)]
                        IN /\ row.present
                           /\ row.processed
                           /\ row.prompt = run[h].reply.entries[i].prompt
                           /\ row.response = run[h].reply.entries[i].response)
    /\ [][\A h \in Handlers :
            (roundTrip(h) /\ run[h].projectId # NoProject /\ run'[h].pc = "responded")
                => run'[h].res = [status |-> 200,
                                  processed |-> Len(run[h].trimmedQueries),
                                  allow |-> {}]]_vars

\* C8 witness: a batch of two records made the round trip.
C8_Witness ==
    \E h \in Handlers : roundTrip(h) /\ Len(run[h].trimmedQueries) = 2

\* The estimated cost of a row of the store.
rowCost(row) == estimateQueryTokenCount(QueryStatData("", row))

\* C9 as stated: a row is deleted only if its own estimated cost exceeds
\* maxTokens at the time of the deletion.
C9_OnlyOversizedDeleted ==
    [][\A k \in Keys :
         (rows[k].present /\ ~rows'[k].present) => rowCost(rows[k]) > maxTokens]_vars

\* C10: no step takes the processed flag of a row from true to false.
C10_ProcessedMonotone ==
    [][\A k \in Keys :
         (rows[k].present /\ rows[k].processed /\ rows'[k].present)
            => rows'[k].processed]_vars

\* C10 witness: a row that was already processed when the job read the
\* store has been written again by this job, and is still processed.
C10_Witness ==
    \E h \in Handlers :
        \E k \in run[h].touched :
            /\ k[1] = run[h].project
            /\ k[2] \notin idsOf(run[h].queries)
            /\ rows[k].processed

\* C11: a job whose read yields nothing (no unprocessed record, or a failed
\* read) returns 0 from the read step itself, leaving the store as it was,
\* and has made no delete, update, completion request or metering write.
C11_NoOpRun ==
    /\ [](\A h \in Handlers :
            (run[h].pc = "returned" /\ run[h].queries = <<>>)
                => /\ run[h].result = 0
                   /\ run[h].calls = [NoCalls EXCEPT !.reads = 1]
                   /\ run[h].touched = {}
                   /\ run[h].deleteOutcome = "none"
                   /\ run[h].reply = NoReply)
    /\ [][\A h \in Handlers :
            (run[h].pc = "read" /\ unprocessedKeys(rows, run[h].project) = {}
                /\ run'[h] # run[h])
                => /\ rows' = rows
                   /\ run'[h].pc = "returned"
                   /\ run'[h].queries = <<>>]_vars

\* C11 witness: a job for a project whose records are all processed has
\* returned 0 after its read.
C11_Witness ==
    \E h \in Handlers :
        /\ run[h].pc = "returned"
        /\ run[h].queries = <<>>
        /\ run[h].result = 0
        /\ unprocessedKeys(rows, run[h].project) = {}
        /\ \E k \in Keys : k[1] = run[h].project /\ rows[k].processed

\* C12: a trigger whose method is missing or is not GET is answered 405 with
\* Allow: GET at once; it never enters the view read or a job, and the step
\* that answers it leaves the store as it was.
C12_MethodGuard ==
    /\ [](\A h \in Handlers :
            run[h].method \notin allowedMethods
                => /\ run[h].pc \in {"idle", "responded"}
                   /\ run[h].pc = "responded"
                        => run[h].res = [status |-> 405, processed |-> 0,
                                         allow |-> {"GET"}])
    /\ [][\A h \in Handlers :
            (run'[h] # run[h] /\ run'[h].method \notin allowedMethods)
                => rows' = rows /\ run'[h].pc = "responded"]_vars

\* C12 witness: a POST has been answered 405 with Allow: GET.
C12_Witness ==
    \E h \in Handlers :
        /\ run[h].pc = "responded"
        /\ run[h].method = "POST"
        /\ run[h].res.status = 405
        /\ run[h].res.allow = {"GET"}

\* The completion request of the job of handler h came back without an
\* error reported by the endpoint.
completed(h) == run[h].reply.kind \in {"unparsable", "nonarray", "array"}

\* C13: the token usage of a job is recorded exactly once when its
\* completion request came back without a reported error, before the parse
\* and whatever the parse gives, and not at all otherwise.
C13_MeteredOnce ==
    \A h \in Handlers :
        /\ run[h].calls.meters =
              IF completed(h) /\ run[h].pc \in {"parse", "update", "returned"}
              THEN 1 ELSE 0
        /\ run[h].pc \in {"parse", "update"} => completed(h)
        /\ run[h].calls.meters <= run[h].calls.completions
        /\ run[h].calls.completions <= 1

\* C13 witness: the usage was recorded for a reply that did not parse.
C13_Witness ==
    \E h \in Handlers :
        /\ run[h].pc = "returned"
        /\ run[h].reply.kind = "unparsable"
        /\ run[h].calls.meters = 1
        /\ run[h].result = 0

\* The fetched queries that the eviction leaves: those whose own cost does
\* not exceed maxTokens.
notOversized(q) == estimateQueryTokenCount(q) <= maxTokens
survivors(queries) == SelectSeq(queries, notOversized)

\* The longest prefix of qs all of whose cumulative costs are below max.
longestPrefixBelow(qs, max) ==
    LET fits(n) == \A i \in 1 .. n : TotalCost(SubSeq(qs, 1, i)) < max
        k == CHOOSE n \in 0 .. Len(qs) :
                fits(n) /\ \A m \in 0 .. Len(qs) : fits(m) => m <= n
    IN SubSeq(qs, 1, k)

\* C14 as stated: the batch is the longest prefix, below the budget, of the
\* fetched records that are not oversized.
C14_TrimAfterEviction ==
    \A h \in Handlers :
        pastEviction(h)
            => run[h].trimmedQueries
                  = longestPrefixBelow(survivors(run[h].queries), maxTokens)

\* C15: for the queries a read has fetched, and for them twice over, and
\* for every budget, trimQueries returns the longest prefix whose cumulative costs are
\* all below the budget; the batch of a job is that prefix for maxTokens.
C15_PrefixGreedy ==
    \A h \in Handlers :
        /\ run[h].pc = "evict"
              => \A qs \in {run[h].queries, run[h].queries \o run[h].queries} :
                    \A max \in 0 .. CONTEXT_TOKENS_CUTOFF_GPT_3_5_TURBO :
                        trimQueries(qs, max) = longestPrefixBelow(qs, max)
        /\ pastEviction(h)
              => run[h].trimmedQueries = longestPrefixBelow(run[h].queries, maxTokens)

\* C15 witness: the first fetched record does not fit, the second would fit
\* alone, and the batch is empty.
C15_Witness ==
    \E h \in Handlers :
        /\ pastEviction(h)
        /\ Len(run[h].queries) = 2
        /\ estimateQueryTokenCount(run[h].queries[1]) >= maxTokens
        /\ estimateQueryTokenCount(run[h].queries[2]) < maxTokens
        /\ run[h].trimmedQueries = <<>>

\* C16 as stated: with triggers that keep coming, a store that answers in
\* a stable order and replies that echo the batch, every record is
\* eventually processed or deleted.
C16_ForwardProgress ==
    \A k \in Keys : <>(~rows[k].present \/ rows[k].processed)

\* C17 as stated, for the records of the job's own project: every record
\* that the write-back of a job has updated was a member of the batch that
\* the job embedded in its prompt.
C17_UpdatesWithinBatch ==
    \A h \in Handlers :
        \A k \in run[h].touched :
            k[1] = run[h].project => k[2] \in idsOf(run[h].trimmedQueries)

\* The row carries the texts that the reply given to handler h held for
\* the row's own id.
writtenBy(h, k) ==
    /\ rows[k].processed
    /\ rows[k].prompt = Entry(h, k[2]).prompt
    /\ rows[k].response = Entry(h, k[2]).response

\* The row is as it was logged: unprocessed, with the user's texts.
untouched(k) ==
    /\ ~rows[k].processed
    /\ \A t \in {rows[k].prompt, rows[k].response} :
          t = NullText \/ (t.who = 0 /\ t.of = k[2])

\* Both invocations run for the same project, have returned, and both had
\* fetched the record with this id.
sharedAtEnd(id) ==
    /\ \A h \in Handlers : run[h].pc = "returned" /\ id \in idsOf(run[h].queries)
    /\ \A h, g \in Handlers : run[h].project = run[g].project

\* C18 as stated: when two overlapping invocations of one project have
\* returned, every record that both had fetched is deleted or is processed
\* with the texts one of the two replies gave for its id.
C18_Original ==
    \A id \in Ids :
        sharedAtEnd(id)
            => LET k == ownKey(1, id)
               IN ~rows[k].present \/ \E h \in Handlers : writtenBy(h, k)

\* C18 amended: under every interleaving of two invocations each row is, at
\* every moment, untouched (unprocessed with its original texts) or
\* processed with the prompt and response that one reply gave for the row's
\* own id; an update that lands leaves exactly its entry's texts; a project's
\* invocation deletes a row of the project only if that row was oversized
\* when fetched; and the flag never goes back to false.
C18_Uncorrupted ==
    /\ [](\A k \in Keys :
            rows[k].present => untouched(k) \/ \E h \in Handlers : writtenBy(h, k))
    /\ [][\A h \in Handlers :
            run'[h].writes = Append(run[h].writes, "ok")
                => \A k \in matchedKeys(rows, run[h].reply.entries[run[h].idx]) :
                      /\ rows'[k].present /\ rows'[k].processed
                      /\ rows'[k].prompt = run[h].reply.entries[run[h].idx].prompt
                      /\ rows'[k].response = run[h].reply.entries[run[h].idx].response]_vars
    /\ [][\A h \in Handlers : \A k \in Keys :
            (/\ run'[h] # run[h]
             /\ k[1] = run[h].project
             /\ rows[k].present /\ ~rows'[k].present)
                => \E i \in DOMAIN run[h].queries :
                      /\ run[h].queries[i].id = k[2]
                      /\ estimateQueryTokenCount(run[h].queries[i]) > maxTokens]_vars
    /\ [][\A k \in Keys :
            (rows[k].processed /\ rows'[k].present) => rows'[k].processed]_vars

\* C18 witness: two invocations of one project both had record id in their
\* batch and both wrote it; it is processed with the texts of one of them.
C18_Witness ==
    \E id \in Ids :
        /\ sharedAtEnd(id)
        /\ \A h \in Handlers :
              /\ id \in idsOf(run[h].trimmedQueries)
              /\ ownKey(h, id) \in run[h].touched
        /\ writtenBy(2, ownKey(1, id))

\* The handler serves a trigger without projectId and is past the method
\* guard.
loopMode(r) ==
    r.method = "GET" /\ r.projectId = NoProject /\ r.pc \notin {"idle", "responded"}

hasProject(p) == p # NoProject
withProject(data) == SelectSeq(data, hasProject)

RECURSIVE Sum(_)
Sum(ns) == IF ns = <<>> THEN 0 ELSE Head(ns) + Sum(Tail(ns))

\* C19: without projectId the handler takes at most TENANT_LIMIT entries of
\* the backlog view and runs their jobs one at a time in the view's order,
\* skipping the entries without a project id: a job is entered only from
\* the view's answer or from the previous job's return, every earlier job
\* has returned its count before, and the total reported is the sum of the
\* counts (0 when the view gives no data).
C19_OneTenantAtATime ==
    /\ [](\A h \in Handlers :
            (loopMode(run[h]) /\ run[h].pc # "view")
                => /\ Len(run[h].viewData) <= TENANT_LIMIT
                   /\ run[h].started \o withProject(run[h].data)
                        = withProject(run[h].viewData)
                   /\ run[h].project = run[h].started[Len(run[h].started)]
                   /\ Len(run[h].counts) = Len(run[h].started) - 1
                   /\ run[h].totalProcessed = Sum(run[h].counts))
    /\ [][\A h \in Handlers :
            (loopMode(run'[h]) /\ run'[h].started # run[h].started)
                => run[h].pc \in {"view", "returned"}]_vars
    /\ [][\A h \in Handlers :
            (loopMode(run[h]) /\ run[h].pc = "returned" /\ run'[h].pc = "responded")
                => /\ run[h].started = withProject(run[h].viewData)
                   /\ run'[h].res = [status |-> 200,
                                     processed |-> Sum(run[h].counts) + run[h].result,
                                     allow |-> {}]]_vars
    /\ [][\A h \in Handlers :
            (run[h].pc = "view" /\ run'[h].pc = "responded")
                => run'[h].res = [status |-> 200, processed |-> 0, allow |-> {}]]_vars

\* C19 witness: the second job of a run has returned after the first, both
\* with a count above 0, for a view that filled the limit.
C19_Witness ==
    \E h \in Handlers :
        /\ loopMode(run[h])
        /\ run[h].pc = "returned"
        /\ Len(run[h].viewData) = TENANT_LIMIT
        /\ Len(run[h].started) = 2
        /\ run[h].counts[1] > 0
        /\ run[h].result > 0

\* C20 as stated: a step of the handler that serves project T changes only
\* rows owned by T.
C20_TenantIsolation ==
    [][\A h \in Handlers : \A k \in Keys :
         (run'[h] # run[h] /\ rows'[k] # rows[k]) => k[1] = run[h].project]_vars

====
